---- MODULE Spec2Model ----
(***************************************************************************)
(* Listing lifecycle of cars-trends-tool: upsert_listing                   *)
(* (backend/services/listing_lifecycle_service.py) run by concurrent       *)
(* callers against the listings table (backend/models.py), together with   *)
(* the retention cleanup and the daily snapshot generator that share the   *)
(* two stores.                                                             *)
(*                                                                         *)
(* A database round trip (SELECT, COMMIT) is one step; the in-memory       *)
(* attribute assignments of the ORM session between two round trips belong *)
(* to the step of the round trip that follows them.  The store behaves as  *)
(* a READ COMMITTED database: a commit applies the session's pending       *)
(* writes atomically and checks the table's constraints; an UPDATE whose    *)
(* row is gone raises StaleDataError.  db.refresh() reads the row back in   *)
(* the step of the commit it follows.                                      *)
(*                                                                         *)
(* A listings row carries the columns of models.Listing and the lifecycle  *)
(* columns first_seen and last_seen that migrate_add_lifecycle.py adds to   *)
(* the table and upsert_listing writes.                                    *)
(***************************************************************************)
EXTENDS Integers, Sequences, FiniteSets, TLC

(* ------------------------------ bounds -------------------------------- *)
\* the clock stops ticking at MaxTime
MaxTime == 2
\* retention_days arguments are drawn from 0..MaxRetention
MaxRetention == 1
\* clock ticks per calendar day
TicksPerDay == 2
\* the last calendar day the clock reaches when it advances by days
MaxDay == 1
\* days arguments of the trend queries are drawn from 0..MaxDays
MaxDays == 2
\* the trend queries are asked on one of the days 0..HistoryDays
HistoryDays == 2
\* limit arguments of get_trending_cars are drawn from 0..MaxLimit
MaxLimit == 2
OverviewDays == 4

(* ------------------------------ values -------------------------------- *)
\* Python None / SQL NULL in a string column and in a numeric column
NoneS == "None"
NoneN == 0 - 1

\* the concurrent callers of upsert_listing (two scrapers)
Callers == {"A", "B"}

StrCols == {"platform", "title", "url", "make", "model"}
NumCols == {"price", "year", "mileage", "views", "likes", "comments"}
DataCols == StrCols \cup NumCols

NullOf(k) == IF k \in StrCols THEN NoneS ELSE NoneN

\* dict.get(k): the value, or None when the key is absent
Get(d, k) == IF k \in DOMAIN d THEN d[k] ELSE NullOf(k)

\* the listing_data dictionaries handed to upsert_listing
FullRecord ==
    [url |-> "u1", platform |-> "craigslist", title |-> "t1", price |-> 1,
     make |-> "Honda", model |-> "Civic", year |-> 2020, mileage |-> 5,
     views |-> 1, likes |-> 1, comments |-> 1]
ChangedRecord ==
    [url |-> "u1", platform |-> "facebook", title |-> "t2", price |-> 2,
     make |-> "Toyota", model |-> "Camry", year |-> 2021, mileage |-> 9,
     views |-> 2, likes |-> 2, comments |-> 2]
\* only the columns the table requires
MinimalRecord == [url |-> "u1", platform |-> "craigslist", title |-> "t1"]
\* no platform, and a price that is None
NoPlatformRecord == [url |-> "u1", title |-> "t2", price |-> NoneN]
\* a title that is None
NoTitleRecord == [url |-> "u1", platform |-> "craigslist", title |-> NoneS, views |-> 2]
\* url missing, None and empty
NoUrlRecords ==
    { [platform |-> "craigslist", title |-> "t1"],
      [url |-> NoneS, platform |-> "craigslist", title |-> "t1"],
      [url |-> "", platform |-> "craigslist", title |-> "t1"] }
\* another listing of the same car on another platform
OtherUrlRecord ==
    [url |-> "u2", platform |-> "mercadolibre", title |-> "t1", price |-> 0,
     make |-> "Honda", model |-> "Civic"]
\* a make without a model
NoModelRecord ==
    [url |-> "u3", platform |-> "facebook", title |-> "t1", price |-> 2,
     make |-> "Honda"]
\* a listing of the same car without a price
NoPriceRecord ==
    [url |-> "u2", platform |-> "facebook", title |-> "t2",
     make |-> "Honda", model |-> "Civic"]
\* a third listing of the same car
ThirdUrlRecord ==
    [url |-> "u3", platform |-> "facebook", title |-> "t2", price |-> 1,
     make |-> "Honda", model |-> "Civic"]
\* a second listing of the other car
SecondCamryRecord ==
    [url |-> "u2", platform |-> "craigslist", title |-> "t1", price |-> 1,
     make |-> "Toyota", model |-> "Camry"]
Records ==
    {FullRecord, ChangedRecord, MinimalRecord, NoPlatformRecord, NoTitleRecord,
     OtherUrlRecord} \cup NoUrlRecords
\* the records two racing scrapers carry: every column the table requires is set
WellFormedRecords == {FullRecord, ChangedRecord, MinimalRecord}

(* ------------------------------ state --------------------------------- *)
VARIABLES
    listings,   \* the listings table: a set of rows
    nextId,     \* the autoincrement counter of listings.id
    clock,      \* datetime.utcnow(), in ticks
    call,       \* per caller: the upsert_listing invocation in progress or last finished
    snapshots,  \* the daily_snapshots table: a set of rows
    snap,       \* per job: the create_daily_snapshot invocation in progress or last finished
    sweep,      \* the cleanup invocation in progress or last finished
    reply,      \* the trend query in progress or last answered
    scheduler   \* the scheduler module's globals, the time of day and the job runs

vars ==
    <<listings, nextId, clock, call, snapshots, snap, sweep, reply, scheduler>>

\* `existing` when the query returned no row
NoRow == [id |-> 0, price |-> NoneN]

\* a caller that has not called yet
Idle ==
    [pc |-> "idle", url |-> NoneS, data |-> << >>, now |-> 0, existing |-> NoRow,
     outcome |-> "none", path |-> "none", error |-> "none",
     inserts |-> 0, recoveries |-> 0]

(* ------------------------- the listings table ------------------------- *)
\* an insert branch that leaves scraped_at to the column default, taken at flush
NewListingDefaultScrapedAt(d, id, now) ==
    [id |-> id,
     platform |-> Get(d, "platform"), title |-> Get(d, "title"), url |-> Get(d, "url"),
     price |-> Get(d, "price"),
     make |-> Get(d, "make"), model |-> Get(d, "model"),
     year |-> Get(d, "year"), mileage |-> Get(d, "mileage"),
     views |-> Get(d, "views"), likes |-> Get(d, "likes"), comments |-> Get(d, "comments"),
     scraped_at |-> clock, first_seen |-> now, last_seen |-> now]

\* Listing(**listing_data) with the lifecycle timestamps: a key absent from the
\* dictionary leaves its column NULL
NewListing(d, id, now) ==
    [id |-> id,
     platform |-> Get(d, "platform"), title |-> Get(d, "title"), url |-> Get(d, "url"),
     price |-> Get(d, "price"),
     make |-> Get(d, "make"), model |-> Get(d, "model"),
     year |-> Get(d, "year"), mileage |-> Get(d, "mileage"),
     views |-> Get(d, "views"), likes |-> Get(d, "likes"), comments |-> Get(d, "comments"),
     scraped_at |-> now, first_seen |-> now, last_seen |-> now]

\* a price column declared nullable=False as well
NotNullWithPrice(row) ==
    /\ row.platform # NoneS
    /\ row.title # NoneS
    /\ row.url # NoneS
    /\ row.price # NoneN

\* nullable=False on platform, title, url
NotNullOK(row) ==
    /\ row.platform # NoneS
    /\ row.title # NoneS
    /\ row.url # NoneS

\* a url column declared without unique=True
UniqueNotEnforced(row, table) == TRUE

\* unique=True on url: no other row of the table holds the url
UniqueOK(row, table) ==
    \A r \in table : r.id # row.id => r.url # row.url

\* db.query(Listing).filter(Listing.url == url).first()
RowsWithUrl(table, url) == {r \in table : r.url = url}

RowsWithId(table, id) == {r \in table : r.id = id}

(* --------------------------- upsert_listing --------------------------- *)
\* an update branch that copies every updatable column, absent keys as None
UpdateNullingAbsent(row, d, now, readPrice) ==
    [row EXCEPT
        !.last_seen = now,
        !.scraped_at = now,
        !.price = IF Get(d, "price") # readPrice THEN Get(d, "price") ELSE @,
        !.views = Get(d, "views"),
        !.likes = Get(d, "likes"),
        !.comments = Get(d, "comments"),
        !.title = IF "title" \in DOMAIN d THEN d["title"] ELSE @]

\* an update branch that also stamps first_seen
UpdateStampingFirstSeen(row, d, now, readPrice) ==
    [row EXCEPT
        !.first_seen = now,
        !.last_seen = now,
        !.scraped_at = now,
        !.price = IF "price" \in DOMAIN d /\ d["price"] # readPrice THEN d["price"] ELSE @,
        !.views = IF "views" \in DOMAIN d THEN d["views"] ELSE @,
        !.likes = IF "likes" \in DOMAIN d THEN d["likes"] ELSE @,
        !.comments = IF "comments" \in DOMAIN d THEN d["comments"] ELSE @,
        !.title = IF "title" \in DOMAIN d THEN d["title"] ELSE @]

\* an update branch that also copies the columns that describe the car
UpdateOverwritingCar(row, d, now, readPrice) ==
    [row EXCEPT
        !.last_seen = now,
        !.scraped_at = now,
        !.price = IF "price" \in DOMAIN d /\ d["price"] # readPrice THEN d["price"] ELSE @,
        !.views = IF "views" \in DOMAIN d THEN d["views"] ELSE @,
        !.likes = IF "likes" \in DOMAIN d THEN d["likes"] ELSE @,
        !.comments = IF "comments" \in DOMAIN d THEN d["comments"] ELSE @,
        !.title = IF "title" \in DOMAIN d THEN d["title"] ELSE @,
        !.platform = IF "platform" \in DOMAIN d THEN d["platform"] ELSE @,
        !.make = IF "make" \in DOMAIN d THEN d["make"] ELSE @,
        !.model = IF "model" \in DOMAIN d THEN d["model"] ELSE @,
        !.year = IF "year" \in DOMAIN d THEN d["year"] ELSE @,
        !.mileage = IF "mileage" \in DOMAIN d THEN d["mileage"] ELSE @]

\* the attribute assignments of the update branch, applied to the stored row when
\* the session flushes; readPrice is existing.price as the query loaded it
UpdateExisting(row, d, now, readPrice) ==
    [row EXCEPT
        !.last_seen = now,
        !.scraped_at = now,
        !.price = IF "price" \in DOMAIN d /\ d["price"] # readPrice THEN d["price"] ELSE @,
        !.views = IF "views" \in DOMAIN d THEN d["views"] ELSE @,
        !.likes = IF "likes" \in DOMAIN d THEN d["likes"] ELSE @,
        !.comments = IF "comments" \in DOMAIN d THEN d["comments"] ELSE @,
        !.title = IF "title" \in DOMAIN d THEN d["title"] ELSE @]

\* the assignment of the IntegrityError handler
RecoverExisting(row, now) ==
    [row EXCEPT !.last_seen = now]

\* `if url is None`
UrlIsNone(d) == Get(d, "url") = NoneS

\* `if not url`
UrlMissing(d) == Get(d, "url") \in {NoneS, ""}

\* the call is over: the session is closed and only what the caller saw remains
Finish(c, outcome, path) ==
    [Idle EXCEPT !.pc = "done", !.url = c.url, !.outcome = outcome, !.path = path,
                 !.error = c.error, !.inserts = c.inserts, !.recoveries = c.recoveries]

\* db = SessionLocal(); now = datetime.utcnow(); the url check
Begin(p, d) ==
    /\ call[p].pc \in {"idle", "done"}
    /\ LET c == [Idle EXCEPT !.url = Get(d, "url"), !.data = d, !.now = clock]
       IN  call' = [call EXCEPT ![p] =
                IF UrlMissing(d)
                THEN Finish(c, "ValueError", "none")
                ELSE [c EXCEPT !.pc = "query"]]
    /\ UNCHANGED <<listings, nextId, clock, snapshots, snap, sweep, reply, scheduler>>

\* existing = db.query(Listing).filter(Listing.url == url).first()
Query(p) ==
    /\ call[p].pc = "query"
    /\ LET found == RowsWithUrl(listings, call[p].url)
       IN  IF found # {}
           THEN \E r \in found :
                    call' = [call EXCEPT ![p].pc = "update",
                                         ![p].existing = [id |-> r.id, price |-> r.price]]
           ELSE call' = [call EXCEPT ![p].pc = "insert"]
    /\ UNCHANGED <<listings, nextId, clock, snapshots, snap, sweep, reply, scheduler>>

\* the update branch up to db.commit(); db.refresh(existing); return existing
UpdateCommit(p) ==
    /\ call[p].pc = "update"
    /\ LET c == call[p]
           stored == RowsWithId(listings, c.existing.id)
       IN  IF stored = {}
           THEN \* the UPDATE matches no row: StaleDataError, caught by `except Exception`
                /\ call' = [call EXCEPT ![p] =
                       Finish([c EXCEPT !.error = "stale"], "StaleDataError", "update")]
                /\ UNCHANGED listings
           ELSE \E r \in stored :
                LET new == UpdateExisting(r, c.data, c.now, c.existing.price)
                IN  IF NotNullOK(new)
                    THEN /\ listings' = (listings \ {r}) \cup {new}
                         /\ call' = [call EXCEPT ![p] = Finish(c, "returned", "update")]
                    ELSE \* IntegrityError: caught by `except IntegrityError`
                         /\ call' = [call EXCEPT ![p].pc = "recover",
                                                 ![p].error = "notnull_update"]
                         /\ UNCHANGED listings
    /\ UNCHANGED <<nextId, clock, snapshots, snap, sweep, reply, scheduler>>

\* the insert branch up to db.commit(); db.refresh(new_listing); return new_listing
InsertCommit(p) ==
    /\ call[p].pc = "insert"
    /\ LET c == [call[p] EXCEPT !.inserts = @ + 1]
           new == NewListing(c.data, nextId, c.now)
       IN  IF NotNullOK(new) /\ UniqueOK(new, listings)
           THEN /\ listings' = listings \cup {new}
                /\ nextId' = nextId + 1
                /\ call' = [call EXCEPT ![p] = Finish(c, "returned", "insert")]
           ELSE \* IntegrityError: caught by `except IntegrityError`
                /\ call' = [call EXCEPT ![p] =
                       [c EXCEPT !.pc = "recover",
                                 !.error = IF NotNullOK(new) THEN "unique"
                                           ELSE "notnull_insert"]]
                /\ UNCHANGED <<listings, nextId>>
    /\ UNCHANGED <<clock, snapshots, snap, sweep, reply, scheduler>>

\* a handler that goes back to the insert when the second query finds nothing
RecoverRetryingInsert(p) ==
    /\ call[p].pc = "recover"
    /\ LET c == [call[p] EXCEPT !.recoveries = @ + 1]
           found == RowsWithUrl(listings, c.url)
       IN  IF found # {}
           THEN \E r \in found :
                    call' = [call EXCEPT ![p] =
                        [c EXCEPT !.pc = "recover_commit",
                                  !.existing = [id |-> r.id, price |-> r.price]]]
           ELSE call' = [call EXCEPT ![p] = [c EXCEPT !.pc = "insert"]]
    /\ UNCHANGED <<listings, nextId, clock, snapshots, snap, sweep, reply, scheduler>>

\* except IntegrityError: db.rollback(); the second query; raise when it finds nothing
Recover(p) ==
    /\ call[p].pc = "recover"
    /\ LET c == [call[p] EXCEPT !.recoveries = @ + 1]
           found == RowsWithUrl(listings, c.url)
       IN  IF found # {}
           THEN \E r \in found :
                    call' = [call EXCEPT ![p] =
                        [c EXCEPT !.pc = "recover_commit",
                                  !.existing = [id |-> r.id, price |-> r.price]]]
           ELSE call' = [call EXCEPT ![p] = Finish(c, "IntegrityError", "recover")]
    /\ UNCHANGED <<listings, nextId, clock, snapshots, snap, sweep, reply, scheduler>>

\* existing.last_seen = now; db.commit(); return existing
RecoverCommit(p) ==
    /\ call[p].pc = "recover_commit"
    /\ LET c == call[p]
           stored == RowsWithId(listings, c.existing.id)
       IN  IF stored = {}
           THEN \* raised inside the handler: propagates to the caller
                /\ call' = [call EXCEPT ![p] = Finish(c, "StaleDataError", "recover")]
                /\ UNCHANGED listings
           ELSE \E r \in stored :
                /\ listings' = (listings \ {r}) \cup {RecoverExisting(r, c.now)}
                /\ call' = [call EXCEPT ![p] = Finish(c, "returned", "recover")]
    /\ UNCHANGED <<nextId, clock, snapshots, snap, sweep, reply, scheduler>>

(* ------------------------------- time --------------------------------- *)
Tick ==
    /\ clock < MaxTime
    /\ clock' = clock + 1
    /\ UNCHANGED <<listings, nextId, call, snapshots, snap, sweep, reply, scheduler>>

\* .date() of a timestamp
DateOf(t) == t \div TicksPerDay

(* ------------------------ cleanup_old_listings ------------------------ *)
\* cutoff_date = datetime.utcnow() - timedelta(days=retention_days)
Cutoff(now, retention_days) == now - retention_days * TicksPerDay

\* a filter that also takes the rows last seen at the cutoff
OldListingsInclusive(table, cutoff) == {r \in table : r.last_seen <= cutoff}

\* filter(Listing.last_seen < cutoff_date)
OldListings(table, cutoff) == {r \in table : r.last_seen < cutoff}

CleanupListings(retention_days) ==
    /\ listings' = listings \ OldListings(listings, Cutoff(clock, retention_days))
    /\ UNCHANGED <<nextId, clock, call, snapshots, snap, sweep, reply, scheduler>>

(* ------------------------ create_daily_snapshot ----------------------- *)
RECURSIVE SumPrice(_)
SumPrice(S) ==
    IF S = {} THEN 0
    ELSE LET r == CHOOSE x \in S : TRUE IN r.price + SumPrice(S \ {r})

RECURSIVE GCD(_, _)
GCD(a, b) == IF b = 0 THEN a ELSE GCD(b, a % b)

\* a float that is not None: a fraction in lowest terms; None: NoneF
NoneF == [num |-> NoneN, den |-> 0]
Fraction(n, d) == LET g == GCD(n, d) IN [num |-> n \div g, den |-> d \div g]

CountPlatform(S, platform) == Cardinality({r \in S : r.platform = platform})

\* a filter on make alone
GroupedByMake(table) == {r \in table : r.make # NoneS}

\* filter(Listing.make.isnot(None), Listing.model.isnot(None))
Grouped(table) == {r \in table : r.make # NoneS /\ r.model # NoneS}

\* the GROUP BY query: one result row per (make, model) with both set; the SQL
\* aggregates skip NULL prices
GroupStats(table) ==
    LET grouped == Grouped(table)
        keys == {<<r.make, r.model>> : r \in grouped}
        members(k) == {r \in grouped : r.make = k[1] /\ r.model = k[2]}
        priced(k) == {r \in members(k) : r.price # NoneN}
    IN  { [make |-> k[1], model |-> k[2],
           count |-> Cardinality(members(k)),
           avg_price |-> IF priced(k) = {} THEN NoneF
                         ELSE Fraction(SumPrice(priced(k)), Cardinality(priced(k))),
           min_price |-> IF priced(k) = {} THEN NoneN
                         ELSE (CHOOSE r \in priced(k) :
                                  \A o \in priced(k) : r.price <= o.price).price,
           max_price |-> IF priced(k) = {} THEN NoneN
                         ELSE (CHOOSE r \in priced(k) :
                                  \A o \in priced(k) : r.price >= o.price).price,
           craigslist_count |-> CountPlatform(members(k), "craigslist"),
           mercadolibre_count |-> CountPlatform(members(k), "mercadolibre"),
           facebook_count |-> CountPlatform(members(k), "facebook")] : k \in keys }

\* the values written for one group, by the update and by the insert branch alike:
\* `float(x) if x else None`
SnapshotRow(snapshot_date, row) ==
    [date |-> snapshot_date, make |-> row.make, model |-> row.model,
     listing_count |-> row.count,
     avg_price |-> IF row.avg_price # NoneF /\ row.avg_price.num # 0
                   THEN row.avg_price ELSE NoneF,
     min_price |-> IF row.min_price # NoneN /\ row.min_price # 0
                   THEN row.min_price ELSE NoneN,
     max_price |-> IF row.max_price # NoneN /\ row.max_price # 0
                   THEN row.max_price ELSE NoneN,
     craigslist_count |-> row.craigslist_count,
     mercadolibre_count |-> row.mercadolibre_count,
     facebook_count |-> row.facebook_count]

\* a lookup by make and model alone
SnapshotsOfCar(table, snapshot_date, make, model) ==
    {x \in table : x.make = make /\ x.model = model}

\* the DailySnapshot rows of one date, make and model
SnapshotsAt(table, snapshot_date, make, model) ==
    {x \in table : x.date = snapshot_date /\ x.make = make /\ x.model = model}

\* a generator that rebuilds the date: it drops the rows of the date first
GenerateSnapshotRebuilding(snapshot_date) ==
    /\ snapshots' = {x \in snapshots : x.date # snapshot_date}
                        \cup {SnapshotRow(snapshot_date, row) : row \in GroupStats(listings)}
    /\ UNCHANGED <<listings, nextId, clock, call, snap, sweep, reply, scheduler>>

\* create_daily_snapshot run with nothing in between its round trips
GenerateSnapshot(snapshot_date) ==
    LET results == GroupStats(listings)
        \* .first(): one row per group that already has a snapshot for the date
        overwritten == {CHOOSE x \in SnapshotsAt(snapshots, snapshot_date, row.make, row.model) : TRUE :
                           row \in {g \in results :
                               SnapshotsAt(snapshots, snapshot_date, g.make, g.model) # {}}}
    IN  /\ snapshots' = (snapshots \ overwritten)
                            \cup {SnapshotRow(snapshot_date, row) : row \in results}
        /\ UNCHANGED <<listings, nextId, clock, call, snap, sweep, reply, scheduler>>

(* ---------------- create_daily_snapshot, step by step ------------------ *)
\* the callers of create_daily_snapshot: the scheduled job and POST /trends/snapshot
Jobs == {"cron", "api"}

\* a job that has not run yet
IdleSnap ==
    [pc |-> "idle", date |-> 0, results |-> {}, found |-> {}, outcome |-> "none",
     created |-> 0, updated |-> 0, total |-> 0]

\* the call is over: the session is closed, the caller holds the summary or the error
FinishSnap(c, outcome, created, updated) ==
    [IdleSnap EXCEPT !.pc = "done", !.date = c.date, !.outcome = outcome,
                     !.created = created, !.updated = updated,
                     !.total = IF outcome = "returned" THEN Cardinality(c.results) ELSE 0]

\* db = SessionLocal(); results = the GROUP BY query over the listings table
SnapshotQuery(j, snapshot_date) ==
    /\ snap[j].pc \in {"idle", "done"}
    /\ snap' = [snap EXCEPT ![j] =
           [IdleSnap EXCEPT !.pc = "lookup", !.date = snapshot_date,
                            !.results = GroupStats(listings)]]
    /\ UNCHANGED <<listings, nextId, clock, call, snapshots, sweep, reply, scheduler>>

\* a lookup that sees no snapshot row
LookupNothing(table, snapshot_date, results) == {}

\* the `existing` lookups of the loop: the groups that have a row for the date.
\* autoflush is off, so nothing is written before the commit
LookupExisting(table, snapshot_date, results) ==
    {<<g.make, g.model>> : g \in {r \in results :
        SnapshotsAt(table, snapshot_date, r.make, r.model) # {}}}

SnapshotLookup(j) ==
    /\ snap[j].pc = "lookup"
    /\ snap' = [snap EXCEPT ![j].pc = "commit",
                            ![j].found = LookupExisting(snapshots, snap[j].date,
                                                        snap[j].results)]
    /\ UNCHANGED <<listings, nextId, clock, call, snapshots, sweep, reply, scheduler>>

\* a daily_snapshots table without unique_daily_snapshot
KeyNeverHeld(table, snapshot_date, g) == FALSE

\* UniqueConstraint('date', 'make', 'model'): the table holds the key of the group
KeyHeld(table, snapshot_date, g) ==
    SnapshotsAt(table, snapshot_date, g.make, g.model) # {}

\* db.commit() and the return: the rows found by the lookups are overwritten in
\* place, the other groups are inserted.  An UPDATE whose row is gone raises
\* StaleDataError, an INSERT of a (date, make, model) that is held raises
\* IntegrityError (unique_daily_snapshot); either leaves the table as it was.
\* While it is stored a row is identified by its (date, make, model).
SnapshotCommit(j) ==
    /\ snap[j].pc = "commit"
    /\ LET c == snap[j]
           updates == {g \in c.results : <<g.make, g.model>> \in c.found}
           inserts == c.results \ updates
           stored(g) == SnapshotsAt(snapshots, c.date, g.make, g.model)
       IN  IF \E g \in updates : stored(g) = {}
           THEN /\ snap' = [snap EXCEPT ![j] = FinishSnap(c, "StaleDataError", 0, 0)]
                /\ UNCHANGED snapshots
           ELSE IF \E g \in inserts : KeyHeld(snapshots, c.date, g)
           THEN /\ snap' = [snap EXCEPT ![j] = FinishSnap(c, "IntegrityError", 0, 0)]
                /\ UNCHANGED snapshots
           ELSE /\ snapshots' =
                       (snapshots \ UNION {stored(g) : g \in updates})
                           \cup {SnapshotRow(c.date, g) : g \in c.results}
                /\ snap' = [snap EXCEPT ![j] =
                       FinishSnap(c, "returned", Cardinality(inserts),
                                  Cardinality(updates))]
    /\ UNCHANGED <<listings, nextId, clock, call, sweep, reply, scheduler>>

\* the store fails on a round trip of the call: the exception leaves through
\* `finally: db.close()`, which discards what the session holds
SnapshotFault(j) ==
    /\ snap[j].pc \in {"lookup", "commit"}
    /\ snap' = [snap EXCEPT ![j] = FinishSnap(snap[j], "OperationalError", 0, 0)]
    /\ UNCHANGED <<listings, nextId, clock, call, snapshots, sweep, reply, scheduler>>

(* ---------- cleanup_old_listings / cleanup_old_snapshots, step by step --------- *)
\* no cleanup has run yet; `remaining` stays None in a result without remaining_count
IdleSweep ==
    [pc |-> "idle", op |-> "none", retention_days |-> 0, cutoff |-> 0,
     outcome |-> "none", deleted |-> 0, remaining |-> NoneN]

\* filter(DailySnapshot.date < cutoff_date.date())
OldSnapshots(table, cutoff) == {x \in table : x.date < DateOf(cutoff)}

\* cleanup_old_listings up to the early return: cutoff_date and the count of the
\* rows to delete; with none, the result carries deleted_count 0 and no
\* remaining_count
ListingsCount(retention_days) ==
    /\ sweep.pc \in {"idle", "done"}
    /\ LET cutoff == Cutoff(clock, retention_days)
           c == [IdleSweep EXCEPT !.op = "listings", !.cutoff = cutoff,
                                  !.retention_days = retention_days]
       IN  sweep' = IF OldListings(listings, cutoff) = {}
                    THEN [c EXCEPT !.pc = "done", !.outcome = "returned"]
                    ELSE [c EXCEPT !.pc = "delete"]
    /\ UNCHANGED <<listings, nextId, clock, call, snapshots, snap, reply, scheduler>>

\* the bulk DELETE and db.commit()
ListingsDelete ==
    /\ sweep.pc = "delete" /\ sweep.op = "listings"
    /\ LET old == OldListings(listings, sweep.cutoff)
       IN  /\ listings' = listings \ old
           /\ sweep' = [sweep EXCEPT !.pc = "remaining", !.deleted = Cardinality(old)]
    /\ UNCHANGED <<nextId, clock, call, snapshots, snap, reply, scheduler>>

\* remaining = db.query(Listing).count() and the return
ListingsRemaining ==
    /\ sweep.pc = "remaining" /\ sweep.op = "listings"
    /\ sweep' = [sweep EXCEPT !.pc = "done", !.outcome = "returned",
                              !.remaining = Cardinality(listings)]
    /\ UNCHANGED <<listings, nextId, clock, call, snapshots, snap, reply, scheduler>>

\* cleanup_old_snapshots up to the early return
SnapshotsCount(retention_days) ==
    /\ sweep.pc \in {"idle", "done"}
    /\ LET cutoff == Cutoff(clock, retention_days)
           c == [IdleSweep EXCEPT !.op = "snapshots", !.cutoff = cutoff,
                                  !.retention_days = retention_days]
       IN  sweep' = IF OldSnapshots(snapshots, cutoff) = {}
                    THEN [c EXCEPT !.pc = "done", !.outcome = "returned"]
                    ELSE [c EXCEPT !.pc = "delete"]
    /\ UNCHANGED <<listings, nextId, clock, call, snapshots, snap, reply, scheduler>>

\* the bulk DELETE and db.commit()
SnapshotsDelete ==
    /\ sweep.pc = "delete" /\ sweep.op = "snapshots"
    /\ LET old == OldSnapshots(snapshots, sweep.cutoff)
       IN  /\ snapshots' = snapshots \ old
           /\ sweep' = [sweep EXCEPT !.pc = "remaining", !.deleted = Cardinality(old)]
    /\ UNCHANGED <<listings, nextId, clock, call, snap, reply, scheduler>>

\* remaining = db.query(DailySnapshot).count() and the return
SnapshotsRemaining ==
    /\ sweep.pc = "remaining" /\ sweep.op = "snapshots"
    /\ sweep' = [sweep EXCEPT !.pc = "done", !.outcome = "returned",
                              !.remaining = Cardinality(snapshots)]
    /\ UNCHANGED <<listings, nextId, clock, call, snapshots, snap, reply, scheduler>>

\* the store fails on the DELETE, on the commit or on the remaining count:
\* `except Exception` rolls back what is not committed and raises
CleanupFault ==
    /\ sweep.pc \in {"delete", "remaining"}
    /\ sweep' = [sweep EXCEPT !.pc = "done", !.outcome = "OperationalError"]
    /\ UNCHANGED <<listings, nextId, clock, call, snapshots, snap, reply, scheduler>>

\* the clock reaches the next midnight
NextDay ==
    /\ DateOf(clock) < MaxDay
    /\ clock' = (DateOf(clock) + 1) * TicksPerDay
    /\ UNCHANGED <<listings, nextId, call, snapshots, snap, sweep, reply, scheduler>>

(* ------------------ get_price_trend / get_trending_cars ----------------- *)
\* the dictionary get_market_overview returns when no snapshot is in range
NoOverview(start_date, end_date) ==
    [total_unique_cars |-> 0, avg_market_price |-> NoneF, total_snapshots |-> 0,
     date_range |-> [start |-> start_date, end |-> end_date],
     most_listed |-> << >>]

\* no query has been made yet
IdleReply ==
    [pc |-> "idle", op |-> "none", make |-> NoneS, model |-> NoneS, days |-> 0,
     limit |-> 0, today |-> 0, today_snapshots |-> {}, candidates |-> {},
     rows |-> << >>, overview |-> NoOverview(0, 0)]

\* the sequences that list every element of S once
Orderings(S) ==
    {s \in [1..Cardinality(S) -> S] : \A i, k \in 1..Cardinality(S) : s[i] = s[k] => i = k}

\* order_by(DailySnapshot.date.desc())
RECURSIVE DateDescending(_)
DateDescending(S) ==
    IF S = {} THEN << >>
    ELSE LET x == CHOOSE y \in S : \A z \in S : y.date >= z.date
         IN  <<x>> \o DateDescending(S \ {x})

\* order_by(DailySnapshot.date.asc()): rows of one date in the order the store
\* returns them
RECURSIVE DateAscending(_)
DateAscending(S) ==
    IF S = {} THEN << >>
    ELSE LET x == CHOOSE y \in S : \A z \in S : y.date <= z.date
         IN  <<x>> \o DateAscending(S \ {x})

\* the dictionary get_price_trend builds from one row
TrendPoint(x) ==
    [date |-> x.date, avg_price |-> x.avg_price, listing_count |-> x.listing_count,
     min_price |-> x.min_price, max_price |-> x.max_price,
     craigslist_count |-> x.craigslist_count,
     mercadolibre_count |-> x.mercadolibre_count,
     facebook_count |-> x.facebook_count]

\* get_price_trend: one query, one answer
GetPriceTrend(make, model, days) ==
    /\ reply.pc \in {"idle", "done"}
    /\ LET start_date == DateOf(clock) - days
           found == {x \in snapshots :
                        x.make = make /\ x.model = model /\ x.date >= start_date}
           sorted == DateAscending(found)
       IN  reply' = [IdleReply EXCEPT !.pc = "done", !.op = "price_trend",
                         !.make = make, !.model = model, !.days = days,
                         !.today = DateOf(clock),
                         !.rows = [i \in 1..Len(sorted) |-> TrendPoint(sorted[i])]]
    /\ UNCHANGED <<listings, nextId, clock, call, snapshots, snap, sweep, scheduler>>

\* float arithmetic on the stored averages
Minus(a, b) == Fraction(a.num * b.den - b.num * a.den, a.den * b.den)
Over(a, b) ==
    IF b.num > 0 THEN Fraction(a.num * b.den, a.den * b.num)
    ELSE Fraction(0 - a.num * b.den, a.den * (0 - b.num))
Times100(a) == Fraction(a.num * 100, a.den)
Abs(a) == IF a.num < 0 THEN [a EXCEPT !.num = 0 - a.num] ELSE a
Less(a, b) == a.num * b.den < b.num * a.den

\* round(x, 2): the nearest hundredth, a tie going to the even one
Round2(a) ==
    LET twice == 2 * 100 * a.num + a.den
        up == twice \div (2 * a.den)
        n == IF twice % (2 * a.den) = 0 /\ up % 2 = 1 THEN up - 1 ELSE up
    IN  Fraction(n, 100)

\* a float that is neither None nor 0.0
Truthy(a) == a # NoneF /\ a.num # 0

\* a direction that counts no change as a rise
DirectionUpOnZero(change) == IF change.num >= 0 THEN "up" ELSE "down"

\* 'up' if change > 0 else 'down'
Direction(change) == IF change.num > 0 THEN "up" ELSE "down"

\* a comparison row taken from the latest snapshot before today
ComparisonNearest(table, today_snap, comparison_date) ==
    LET before == {x \in table :
                      /\ x.make = today_snap.make /\ x.model = today_snap.model
                      /\ x.date < today_snap.date /\ x.avg_price # NoneF}
    IN  {x \in before : \A y \in before : y.date <= x.date}

\* old_snap: the rows of the pair dated comparison_date with an avg_price
ComparisonSnapshots(table, today_snap, comparison_date) ==
    {x \in table :
        /\ x.make = today_snap.make /\ x.model = today_snap.model
        /\ x.date = comparison_date /\ x.avg_price # NoneF}

\* the dictionary appended to `trending` for one pair
TrendingEntry(today_snap, old_snap) ==
    LET change == Minus(today_snap.avg_price, old_snap.avg_price)
    IN  [make |-> today_snap.make, model |-> today_snap.model,
         old_price |-> old_snap.avg_price, new_price |-> today_snap.avg_price,
         change |-> Round2(change),
         change_pct |-> Round2(Times100(Over(change, old_snap.avg_price))),
         direction |-> Direction(change),
         listing_count |-> today_snap.listing_count]

\* trending[:limit]
Slice(s, limit) ==
    LET n == IF limit >= 0 THEN (IF limit < Len(s) THEN limit ELSE Len(s))
             ELSE (IF Len(s) + limit > 0 THEN Len(s) + limit ELSE 0)
    IN  SubSeq(s, 1, n)

\* get_trending_cars up to the first query: today's snapshots with an avg_price
TrendingToday(days, limit) ==
    /\ reply.pc \in {"idle", "done"}
    /\ reply' = [IdleReply EXCEPT !.pc = "compare", !.op = "trending",
                     !.days = days, !.limit = limit, !.today = DateOf(clock),
                     !.today_snapshots =
                         {x \in snapshots : x.date = DateOf(clock)
                                               /\ x.avg_price # NoneF}]
    /\ UNCHANGED <<listings, nextId, clock, call, snapshots, snap, sweep, scheduler>>

\* the loop over today's snapshots with its lookups, the sort by |change| and
\* the slice; list.sort is stable, so equal |change| keep the order in which the
\* store returned today's snapshots
TrendingCompare ==
    /\ reply.pc = "compare"
    /\ LET comparison_date == reply.today - reply.days
           old(t) == ComparisonSnapshots(snapshots, t, comparison_date)
           \* .first()
           old_snap(t) == CHOOSE o \in old(t) : TRUE
           kept == {t \in reply.today_snapshots :
                       /\ old(t) # {}
                       /\ Truthy(old_snap(t).avg_price)
                       /\ Truthy(t.avg_price)}
           trending == {TrendingEntry(t, old_snap(t)) : t \in kept}
       IN  \E s \in Orderings(trending) :
               /\ \A i, k \in 1..Len(s) :
                     i < k => ~Less(Abs(s[i].change), Abs(s[k].change))
               /\ reply' = [reply EXCEPT !.pc = "done", !.today_snapshots = {},
                               !.candidates = {<<e.make, e.model>> : e \in trending},
                               !.rows = Slice(s, reply.limit)]
    /\ UNCHANGED <<listings, nextId, clock, call, snapshots, snap, sweep, scheduler>>

(* -------------------------- get_market_overview ------------------------- *)
\* most_listed[:10]
MostListed == 10

Plus(a, b) == Fraction(a.num * b.den + b.num * a.den, a.den * b.den)

\* round(x, 1): the nearest tenth, a tie going to the even one
Round1(a) ==
    LET twice == 2 * 10 * a.num + a.den
        up == twice \div (2 * a.den)
        n == IF twice % (2 * a.den) = 0 /\ up % 2 = 1 THEN up - 1 ELSE up
    IN  Fraction(n, 10)

\* sum(prices) over the rows of S
RECURSIVE SumAvgPrice(_)
SumAvgPrice(S) ==
    IF S = {} THEN Fraction(0, 1)
    ELSE LET x == CHOOSE y \in S : TRUE
         IN  Plus(x.avg_price, SumAvgPrice(S \ {x}))

\* car_listings[key]: the listing_count of the rows of S added up
RECURSIVE SumListingCount(_)
SumListingCount(S) ==
    IF S = {} THEN 0
    ELSE LET x == CHOOSE y \in S : TRUE
         IN  x.listing_count + SumListingCount(S \ {x})

\* the dictionary appended to most_listed for one car; avg_listings, rounded, is
\* also the sort key
MostListedEntry(found, car) ==
    LET rows == {x \in found : x.make = car[1] /\ x.model = car[2]}
        total_listings == SumListingCount(rows)
        days_present == Cardinality({x.date : x \in rows})
    IN  [make |-> car[1], model |-> car[2],
         avg_listings |-> IF days_present > 0
                          THEN Round1(Fraction(total_listings, days_present))
                          ELSE Fraction(0, 1),
         days_present |-> days_present]

\* get_market_overview: one query, one answer; the dictionaries keep the order in
\* which the store returned the first row of each car, and list.sort is stable
GetMarketOverview(days) ==
    /\ reply.pc \in {"idle", "done"}
    /\ LET start_date == DateOf(clock) - days
           end_date == DateOf(clock)
           found == {x \in snapshots : x.date >= start_date /\ x.date <= end_date}
           unique_cars == {<<x.make, x.model>> : x \in found}
           prices == {x \in found : Truthy(x.avg_price)}
           avg_price == IF prices # {}
                        THEN Over(SumAvgPrice(prices), Fraction(Cardinality(prices), 1))
                        ELSE NoneF
           entries == {MostListedEntry(found, car) : car \in unique_cars}
           answer == [IdleReply EXCEPT !.pc = "done", !.op = "overview",
                                       !.days = days, !.today = DateOf(clock)]
       IN  IF found = {}
           THEN reply' = [answer EXCEPT !.overview = NoOverview(start_date, end_date)]
           ELSE \E most_listed \in Orderings(entries) :
                   /\ \A i, k \in 1..Len(most_listed) :
                         i < k => ~Less(most_listed[i].avg_listings,
                                        most_listed[k].avg_listings)
                   /\ reply' = [answer EXCEPT !.overview =
                          [total_unique_cars |-> Cardinality(unique_cars),
                           avg_market_price |-> IF Truthy(avg_price)
                                                THEN Round2(avg_price) ELSE NoneF,
                           total_snapshots |-> Cardinality(found),
                           date_range |-> [start |-> start_date, end |-> end_date],
                           most_listed |-> Slice(most_listed, MostListed)]]
    /\ UNCHANGED <<listings, nextId, clock, call, snapshots, snap, sweep, scheduler>>

(* ------------------------------ the scheduler ----------------------------- *)
\* the ids of the jobs initialize_scheduler adds
Collectors == {"scrape_craigslist", "scrape_mercadolibre", "scrape_facebook"}
JobIds == Collectors \cup {"daily_snapshot", "cleanup_data"}

\* CronTrigger(hour=..., minute=0) of each job
TriggerHour ==
    [j \in JobIds |->
        CASE j = "scrape_craigslist" -> 2
          [] j = "scrape_mercadolibre" -> 3
          [] j = "scrape_facebook" -> 4
          [] j = "daily_snapshot" -> 5
          [] j = "cleanup_data" -> 6]

\* _scheduler = None, _scheduler_started = False at midnight; no job has run.
\* `state` is the BackgroundScheduler's own state, `registrations` the number of
\* times the five jobs were added, `status` what the last call returned, `fired`
\* the jobs started since midnight, `run` whether a run of the job is going
NoScheduler ==
    [initialized |-> FALSE, started |-> FALSE, state |-> "none",
     registrations |-> 0, op |-> "none", status |-> "none", hour |-> 0,
     fired |-> {}, run |-> [j \in JobIds |-> "idle"]]

\* an initialize_scheduler without the `if _scheduler is not None` return
InitializedAgain(s, auto_start) ==
    [s EXCEPT !.initialized = TRUE,
              !.registrations = IF @ < 2 THEN @ + 1 ELSE @,
              !.state = IF auto_start THEN "running" ELSE "stopped",
              !.started = auto_start]

\* the globals after initialize_scheduler(auto_start)
Initialized(s, auto_start) ==
    IF s.initialized THEN s
    ELSE [s EXCEPT !.initialized = TRUE,
                   !.registrations = @ + 1,
                   !.state = IF auto_start THEN "running" ELSE "stopped",
                   !.started = auto_start]

InitializeScheduler(auto_start) ==
    /\ scheduler' = [Initialized(scheduler, auto_start) EXCEPT
                         !.op = "initialize",
                         !.status = IF scheduler.initialized THEN "existing"
                                    ELSE "created"]
    /\ UNCHANGED <<listings, nextId, clock, call, snapshots, snap, sweep, reply>>

StartScheduler ==
    /\ LET s == Initialized(scheduler, TRUE)
       IN  scheduler' =
               IF s.started
               THEN [s EXCEPT !.op = "start", !.status = "already_running"]
               ELSE [s EXCEPT !.op = "start", !.status = "started",
                              !.state = "running", !.started = TRUE]
    /\ UNCHANGED <<listings, nextId, clock, call, snapshots, snap, sweep, reply>>

StopScheduler ==
    /\ scheduler' =
           IF ~scheduler.initialized \/ ~scheduler.started
           THEN [scheduler EXCEPT !.op = "stop", !.status = "not_running"]
           ELSE [scheduler EXCEPT !.op = "stop", !.status = "stopped",
                                  !.state = "stopped", !.started = FALSE]
    /\ UNCHANGED <<listings, nextId, clock, call, snapshots, snap, sweep, reply>>

\* get_scheduler_status()['running']
StatusRunning(s) == IF ~s.initialized THEN FALSE ELSE s.started

\* an hour passes; at midnight a new cycle begins; a running scheduler starts
\* the job whose trigger is due unless its previous run is still going
\* (max_instances is 1); nothing waits for the runs of the other jobs
HourPasses ==
    /\ LET hour == (scheduler.hour + 1) % 24
           due == {j \in JobIds :
                      /\ scheduler.state = "running"
                      /\ TriggerHour[j] = hour
                      /\ scheduler.run[j] = "idle"}
       IN  scheduler' =
               [scheduler EXCEPT
                   !.hour = hour,
                   !.fired = (IF hour = 0 THEN {} ELSE @) \cup due,
                   !.run = [j \in JobIds |->
                               IF j \in due THEN "running" ELSE scheduler.run[j]]]
    /\ UNCHANGED <<listings, nextId, clock, call, snapshots, snap, sweep, reply>>

\* the run of a job ends, by a return or by an exception that the wrapper logs
\* and raises again
JobEnds(j) ==
    /\ scheduler.run[j] = "running"
    /\ scheduler' = [scheduler EXCEPT !.run[j] = "idle"]
    /\ UNCHANGED <<listings, nextId, clock, call, snapshots, snap, sweep, reply>>

(* --------------------------- specifications --------------------------- *)
Init ==
    /\ listings = {}
    /\ nextId = 1
    /\ clock = 0
    /\ call = [p \in Callers |-> Idle]
    /\ snapshots = {}
    /\ snap = [j \in Jobs |-> IdleSnap]
    /\ sweep = IdleSweep
    /\ reply = IdleReply
    /\ scheduler = NoScheduler

\* one step of an upsert_listing call of a caller in P carrying a record of R
Upsert(P, R) ==
    \E p \in P :
        \/ \E d \in R : Begin(p, d)
        \/ Query(p)
        \/ UpdateCommit(p)
        \/ InsertCommit(p)
        \/ Recover(p)
        \/ RecoverCommit(p)

\* one step of an upsert_listing call of the only scraper, carrying a record of R
\* that sets every required column: with no second writer neither commit can
\* fail on a constraint, so the IntegrityError handler is never entered
Scrape(R) ==
    \/ \E d \in R : Begin("A", d)
    \/ Query("A")
    \/ UpdateCommit("A")
    \/ InsertCommit("A")

Cleanup == \E r \in 0..MaxRetention : CleanupListings(r)

Snapshot == GenerateSnapshot(DateOf(clock))

\* one scraper feeding records of every shape while the cleanup job runs
Next ==
    \/ Upsert({"A"}, Records)
    \/ Cleanup
    \/ Tick

Spec == Init /\ [][Next]_vars

\* two scrapers racing on one url, nothing else running
NextRace ==
    \/ Upsert(Callers, WellFormedRecords)
    \/ Tick

SpecRace == Init /\ [][NextRace]_vars

\* two scrapers racing on one url while the cleanup job runs
NextRetention ==
    \/ Upsert(Callers, {FullRecord, ChangedRecord})
    \/ Cleanup
    \/ Tick

SpecRetention == Init /\ [][NextRetention]_vars

\* one scraper and the snapshot job
NextStores ==
    \/ Upsert({"A"}, {FullRecord, NoTitleRecord, OtherUrlRecord} \cup NoUrlRecords)
    \/ Snapshot
    \/ Tick

SpecStores == Init /\ [][NextStores]_vars

\* one step of a create_daily_snapshot call of a job in J for a date in D
SnapshotJob(J, D) ==
    \E j \in J :
        \/ \E d \in D : SnapshotQuery(j, d)
        \/ SnapshotLookup(j)
        \/ SnapshotCommit(j)
        \/ SnapshotFault(j)

\* one step of a cleanup_old_listings or cleanup_old_snapshots call
CleanupJob ==
    \/ \E r \in 0..MaxRetention : ListingsCount(r)
    \/ ListingsDelete
    \/ ListingsRemaining
    \/ \E r \in 0..MaxRetention : SnapshotsCount(r)
    \/ SnapshotsDelete
    \/ SnapshotsRemaining
    \/ CleanupFault

\* one step of a trend query
TrendQuery(Cars, Days, Limits) ==
    \/ \E car \in Cars, days \in Days : GetPriceTrend(car[1], car[2], days)
    \/ \E days \in Days, limit \in Limits : TrendingToday(days, limit)
    \/ TrendingCompare

\* the listings table after the records of a sequence were scraped at time 0
RECURSIVE Market(_)
Market(records) ==
    IF records = << >> THEN {}
    ELSE Market(SubSeq(records, 1, Len(records) - 1))
             \cup {NewListing(records[Len(records)], Len(records), 0)}

\* the listings tables the snapshot generator starts from
Markets ==
    { Market(<< >>),
      Market(<<FullRecord>>),
      Market(<<OtherUrlRecord>>),
      Market(<<FullRecord, NoPriceRecord>>),
      Market(<<NoModelRecord, OtherUrlRecord>>),
      Market(<<ChangedRecord, OtherUrlRecord>>) }

\* a database that was filled before the jobs start
Seeded(M) ==
    /\ listings \in M
    /\ nextId = Cardinality(listings) + 1
    /\ clock = 0
    /\ call = [p \in Callers |-> Idle]
    /\ snapshots = {}
    /\ snap = [j \in Jobs |-> IdleSnap]
    /\ sweep = IdleSweep
    /\ reply = IdleReply
    /\ scheduler = NoScheduler

\* the listings tables the snapshots of a day are taken from
TrendMarkets ==
    { Market(<<FullRecord, OtherUrlRecord, ThirdUrlRecord>>),
      Market(<<ChangedRecord, OtherUrlRecord>>),
      Market(<<ChangedRecord, ThirdUrlRecord>>),
      Market(<<ChangedRecord, OtherUrlRecord, ThirdUrlRecord>>) }

\* the rows the snapshot job left on the days before `today`, the listings
\* table being history[d] on day d
SnapshotsBefore(history, today) ==
    UNION {{SnapshotRow(d, g) : g \in GroupStats(history[d])} : d \in 0..(today - 1)}

\* a database on one of its days: the snapshot job ran on each day before, and
\* has not run yet today
SeededHistory(M) ==
    \E today \in 0..HistoryDays, history \in [0..HistoryDays -> M] :
        /\ listings = history[today]
        /\ nextId = Cardinality(listings) + 1
        /\ clock = today * TicksPerDay
        /\ call = [p \in Callers |-> Idle]
        /\ snapshots = SnapshotsBefore(history, today)
        /\ snap = [j \in Jobs |-> IdleSnap]
        /\ sweep = IdleSweep
        /\ reply = IdleReply
        /\ scheduler = NoScheduler

\* the scheduled snapshot job over a filled database, one scraper, and the
\* deletion of old listings, over the days
NextSnapshots ==
    \/ Scrape({ChangedRecord})
    \/ SnapshotJob({"cron"}, {DateOf(clock)})
    \/ Cleanup
    \/ NextDay

SpecSnapshots == Seeded(Markets) /\ [][NextSnapshots]_vars

\* the scheduled snapshot job and a manual snapshot at once while one scraper
\* runs, over the days
NextManual ==
    \/ Scrape({ChangedRecord})
    \/ SnapshotJob(Jobs, {DateOf(clock)})
    \/ NextDay

SpecManual == Seeded({Market(<< >>), Market(<<FullRecord>>)}) /\ [][NextManual]_vars

\* the snapshot job and the two cleanups on a store that may fail, and one scraper
NextCleanup ==
    \/ Scrape({ChangedRecord})
    \/ SnapshotJob({"cron"}, {DateOf(clock)})
    \/ CleanupJob
    \/ NextDay

SpecCleanup == Seeded({Market(<<FullRecord>>)}) /\ [][NextCleanup]_vars

\* one scraper, the snapshot job and the two cleanups over two listings
NextSweep ==
    \/ Scrape({ChangedRecord})
    \/ Snapshot
    \/ CleanupJob
    \/ NextDay

SpecSweep == Seeded({Market(<<FullRecord, OtherUrlRecord>>)}) /\ [][NextSweep]_vars

\* the calls that control the scheduler, and the scheduler at work over the days
NextScheduler ==
    \/ \E auto_start \in BOOLEAN : InitializeScheduler(auto_start)
    \/ StartScheduler
    \/ StopScheduler
    \/ HourPasses
    \/ \E j \in JobIds : JobEnds(j)

SpecScheduler == Init /\ [][NextScheduler]_vars

\* every operation on the two stores: one scraper, the snapshot job, the two
\* cleanups and the trend queries
NextOperations ==
    \/ Scrape({ChangedRecord})
    \/ Snapshot
    \/ CleanupJob
    \/ TrendQuery({<<"Toyota", "Camry">>}, {1}, {MaxLimit})
    \/ NextDay

SpecOperations == Seeded({Market(<< >>)}) /\ [][NextOperations]_vars

\* the trend queries on a day of the database, while the snapshot job of the
\* day runs
NextTrends ==
    \/ SnapshotJob({"cron"}, {DateOf(clock)})
    \/ TrendQuery({<<"Honda", "Civic">>, <<"Toyota", "Camry">>}, 0..MaxDays,
                  {0 - 1, 1, MaxLimit})

SpecTrends == SeededHistory(TrendMarkets) /\ [][NextTrends]_vars

\* the listings tables the snapshots of a day of the overview are taken from:
\* both cars with one listing each, two listings of the second car, and the
\* first car alone with two listings
OverviewMarkets ==
    { Market(<<ChangedRecord, ThirdUrlRecord>>),
      Market(<<ChangedRecord, SecondCamryRecord, ThirdUrlRecord>>),
      Market(<<OtherUrlRecord, ThirdUrlRecord>>) }

\* a database on the last day of the overview: the snapshot job ran on each day
\* before, and has not run yet today
SeededOverview(M) ==
    \E today \in {OverviewDays}, history \in [0..OverviewDays -> M] :
        /\ listings = history[today]
        /\ nextId = Cardinality(listings) + 1
        /\ clock = today * TicksPerDay
        /\ call = [p \in Callers |-> Idle]
        /\ snapshots = SnapshotsBefore(history, today)
        /\ snap = [j \in Jobs |-> IdleSnap]
        /\ sweep = IdleSweep
        /\ reply = IdleReply
        /\ scheduler = NoScheduler

MarketOverview(Days) == \E days \in Days : GetMarketOverview(days)

\* the snapshot job and the market overview over a history of snapshots
NextOverview ==
    \/ SnapshotJob({"cron"}, {DateOf(clock)})
    \/ MarketOverview((0 - 1)..OverviewDays)

SpecOverview == SeededOverview(OverviewMarkets) /\ [][NextOverview]_vars

(* ------------------------------- claims ------------------------------- *)
\* p's call is over
Done(p) == call[p].pc = "done"

\* p's call is over and handed a Listing back
Returned(p) == Done(p) /\ call[p].outcome = "returned"

\* C1: whatever the interleaving of two upsert_listing calls that carry the same
\* url, unseen until then, and a record the table accepts, the table never holds
\* two rows with one url, and each call that went through the insert branch ends
\* by returning a Listing, with exactly one row for its url in the table.
C1_RaceOneRowBothReturn ==
    /\ \A r1, r2 \in listings : r1.url = r2.url => r1 = r2
    /\ \A p \in Callers :
          Done(p) /\ call[p].inserts = 1 =>
              /\ call[p].outcome = "returned"
              /\ Cardinality(RowsWithUrl(listings, call[p].url)) = 1

\* both callers found no row, one insert won, the other was refused for the url
\* and recovered
C1_Witness ==
    /\ Returned("A") /\ call["A"].path = "insert"
    /\ Returned("B") /\ call["B"].path = "recover" /\ call["B"].error = "unique"
    /\ call["A"].url = call["B"].url

\* C2: in every reachable state every Listing has first_seen <= last_seen.
C2_FirstSeenBeforeLastSeen ==
    \A r \in listings : r.first_seen <= r.last_seen

\* C3: a step never changes the first_seen of a url whose row it keeps: from the
\* insert until cleanup deletes the row, first_seen is the creating call's now.
C3_FirstSeenImmutable ==
    [][\A r \in listings : \A r2 \in listings' :
           r2.url = r.url => r2.first_seen = r.first_seen]_vars

\* a later call updated a row that was created earlier
C3_Witness ==
    \E p \in Callers :
        /\ Returned(p) /\ call[p].path = "update"
        /\ \E r \in listings : r.url = call[p].url /\ r.first_seen < r.last_seen

\* the step is the successful commit of p's insert branch
InsertReturns(p) ==
    call[p].pc = "insert" /\ call'[p].pc = "done" /\ call'[p].outcome = "returned"

\* C4: the commit of the insert branch adds exactly one row, with first_seen =
\* last_seen = scraped_at = the call's now, every key of the record stored with
\* the record's value and every column absent from the record NULL.
C4_InsertedRow ==
    [][\A p \in Callers : InsertReturns(p) =>
          \E new \in listings' :
              /\ new \notin listings
              /\ listings' = listings \cup {new}
              /\ new.first_seen = call[p].now
              /\ new.last_seen = call[p].now
              /\ new.scraped_at = call[p].now
              /\ \A k \in DataCols :
                    new[k] = IF k \in DOMAIN call[p].data THEN call[p].data[k]
                             ELSE NullOf(k)]_vars

\* a record without price and engagement counters was inserted after the clock
\* moved on from the call's now
C4_Witness ==
    \E p \in Callers :
        /\ Returned(p) /\ call[p].path = "insert"
        /\ \E r \in listings :
              /\ r.url = call[p].url /\ r.price = NoneN /\ r.views = NoneN
              /\ r.first_seen = r.last_seen /\ r.last_seen < clock

\* the step is the successful commit of p's update branch
UpdateReturns(p) ==
    call[p].pc = "update" /\ call'[p].pc = "done" /\ call'[p].outcome = "returned"

UpdatedCols == {"price", "title", "views", "likes", "comments"}

C6_ScrapedAtMirrorsLastSeen ==
    \A r \in listings : r.scraped_at = r.last_seen

\* C7: a call makes at most one insert and at most one recovery attempt; after a
\* uniqueness violation the handler's query either finds the row and goes on to
\* the one update, or finds none and raises IntegrityError; an update that finds
\* its row gone raises; neither failure touches the table.
C7_OneRecoveryThenRaise ==
    [][\A p \in Callers :
          /\ call'[p].inserts <= 1
          /\ call'[p].recoveries <= 1
          /\ (call[p].pc = "recover" /\ call[p].error = "unique" /\ call'[p] # call[p]) =>
                IF RowsWithUrl(listings, call[p].url) = {}
                THEN /\ call'[p].pc = "done"
                     /\ call'[p].outcome = "IntegrityError"
                     /\ listings' = listings
                ELSE call'[p].pc = "recover_commit"
          /\ (call[p].pc = "recover_commit" /\ call[p].error = "unique"
                 /\ call'[p] # call[p]) =>
                /\ call'[p].pc = "done"
                /\ RowsWithId(listings, call[p].existing.id) = {} =>
                      /\ call'[p].outcome = "StaleDataError"
                      /\ listings' = listings]_vars

\* an insert was refused for its url, the winner's row was deleted before the
\* handler could update it, and the call raised
C7_Witness ==
    \E p \in Callers :
        /\ Done(p) /\ call[p].error = "unique" /\ call[p].path = "recover"
        /\ call[p].outcome \in {"IntegrityError", "StaleDataError"}
        /\ call[p].inserts = 1 /\ call[p].recoveries = 1

\* C8: a call whose record has no url, a None url or an empty url ends at once
\* with ValueError and changes neither the listings nor the snapshots table.
C8_MissingUrlRejected ==
    [][\A p \in Callers :
          (call[p].pc \in {"idle", "done"} /\ call'[p] # call[p]
              /\ call'[p].url \in {NoneS, ""}) =>
                /\ call'[p].pc = "done"
                /\ call'[p].outcome = "ValueError"
                /\ listings' = listings
                /\ nextId' = nextId
                /\ snapshots' = snapshots]_vars

\* an empty url was rejected while both tables held rows
C8_Witness ==
    \E p \in Callers :
        /\ Done(p) /\ call[p].url = "" /\ call[p].outcome = "ValueError"
        /\ listings # {}
        /\ snapshots # {}

\* the step is p's commit of the insert branch, for a url no row holds
InsertOfUnseenUrl(p) ==
    /\ call[p].pc = "insert"
    /\ call'[p] # call[p]
    /\ RowsWithUrl(listings, call[p].url) = {}

\* the step leaves p returned, with a new row for its url
CreatesListing(p) ==
    /\ call'[p].pc = "done"
    /\ call'[p].outcome = "returned"
    /\ \E r \in listings' \ listings : r.url = call[p].url

C10_StoreFailureRaised ==
    [][\A p \in Callers :
          (/\ call[p].error \in {"notnull_update", "notnull_insert", "stale"}
           /\ call[p].pc # "done"
           /\ call'[p] # call[p]) =>
                /\ listings' = listings
                /\ call'[p].outcome # "returned"]_vars

\* the urls the listings table holds
Urls(table) == {r.url : r \in table}

\* the (date, make, model) keys the daily_snapshots table holds
Keys(table) == {<<x.date, x.make, x.model>> : x \in table}

\* the step is the bulk DELETE of cleanup_old_listings
ListingsDeleted ==
    sweep.pc = "delete" /\ sweep.op = "listings" /\ sweep'.pc = "remaining"

\* the step is the bulk DELETE of cleanup_old_snapshots
SnapshotsDeleted ==
    sweep.pc = "delete" /\ sweep.op = "snapshots" /\ sweep'.pc = "remaining"

\* C11: a step that is not the DELETE of cleanup_old_listings keeps every stored
\* url, a step that is not the DELETE of cleanup_old_snapshots keeps every stored
\* (date, make, model), and no step of a cleanup_old_listings call changes the
\* daily_snapshots table.
C11_OnlyCleanupRemoves ==
    [][/\ ~ListingsDeleted => Urls(listings) \subseteq Urls(listings')
       /\ ~SnapshotsDeleted => Keys(snapshots) \subseteq Keys(snapshots')
       /\ (sweep'.op = "listings" /\ sweep' # sweep) => snapshots' = snapshots]_vars

\* cleanup_old_listings deleted the listing a snapshot was taken from, the
\* snapshot is still stored, and upserts and a trend query went through
C11_Witness ==
    /\ sweep.pc = "done" /\ sweep.op = "listings" /\ sweep.deleted >= 1
    /\ \E x \in snapshots : \A r \in listings : r.make # x.make
    /\ Returned("A")
    /\ reply.pc = "done" /\ reply.op = "trending"

\* no two rows of the table share (date, make, model)
OneRowPerKey(table) ==
    \A x, y \in table :
        (x.date = y.date /\ x.make = y.make /\ x.model = y.model) => x = y

\* the step is the successful commit of j's create_daily_snapshot call
SnapshotReturns(j) ==
    snap[j].pc = "commit" /\ snap'[j].pc = "done" /\ snap'[j].outcome = "returned"

\* C12: the daily_snapshots table never holds two rows with one (date, make,
\* model), and a create_daily_snapshot call that commits leaves, for each of its
\* groups that had a row for the date, that one row with the group's new
\* listing_count, adding rows only for the groups that had none.
C12_OneSnapshotPerKey ==
    [][/\ OneRowPerKey(snapshots')
       /\ \A j \in Jobs : SnapshotReturns(j) =>
             /\ \A g \in snap[j].results :
                   \A x \in SnapshotsAt(snapshots', snap[j].date, g.make, g.model) :
                       x.listing_count = g.count
             /\ Cardinality(snapshots') = Cardinality(snapshots)
                   + Cardinality({g \in snap[j].results :
                         SnapshotsAt(snapshots, snap[j].date, g.make, g.model) = {}})]_vars

\* two jobs ran for one date: one overwrote the row it found, the other was
\* refused the insert of a key that had been taken meanwhile
C12_Witness ==
    /\ snap["cron"].pc = "done" /\ snap["api"].pc = "done"
    /\ snap["cron"].date = snap["api"].date
    /\ snap["cron"].outcome = "returned" /\ snap["cron"].updated >= 1
    /\ snap["api"].outcome = "IntegrityError"
    /\ \E x \in snapshots : x.date = snap["cron"].date

\* the step ends j's create_daily_snapshot call at its commit, the store not failing
SnapshotCommits(j) ==
    /\ snap[j].pc = "commit" /\ snap'[j].pc = "done"
    /\ snap'[j].outcome # "OperationalError"

\* the rows a call writes for its date from the groups it read
Written(c) == {SnapshotRow(c.date, g) : g \in c.results}

\* C13: when a create_daily_snapshot call reaches its commit with the table
\* already holding, for its date, the rows of a call that read the same groups,
\* it returns with snapshots_created = 0 and snapshots_updated = total_cars = the
\* number of groups, and leaves every row of the table as it was.
C13_SecondCallUpdatesOnly ==
    [][\A j \in Jobs :
          (SnapshotCommits(j) /\ Written(snap[j]) \subseteq snapshots) =>
              /\ snap'[j].outcome = "returned"
              /\ snap'[j].created = 0
              /\ snap'[j].updated = Cardinality(snap[j].results)
              /\ snap'[j].total = Cardinality(snap[j].results)
              /\ snapshots' = snapshots]_vars

\* the job ran again over the listings as they were filled in, nothing having
\* touched them, and updated both groups' rows
C13_Witness ==
    /\ snap["cron"].pc = "done" /\ snap["cron"].outcome = "returned"
    /\ snap["cron"].created = 0 /\ snap["cron"].updated = 2
    /\ call["A"].pc = "idle" /\ clock = 0
    /\ Cardinality(listings) = 2
    /\ Cardinality(SnapshotsAt(snapshots, 0, "Toyota", "Camry")) = 1

\* the listings of one (make, model), and those of a set that carry a price
Members(table, make, model) == {r \in table : r.make = make /\ r.model = model}
Priced(S) == {r \in S : r.price # NoneN}

\* the step is the GROUP BY query of j's create_daily_snapshot call
SnapshotReads(j) == snap[j].pc \in {"idle", "done"} /\ snap'[j].pc = "lookup"

\* C14: the group a create_daily_snapshot call reads for a (make, model) counts
\* every listing of the pair, priced or not, and carries the minimum, maximum and
\* mean of the prices that are not null; the row the call commits for the group
\* has that listing_count and those three statistics, which are null exactly
\* when no listing of the group has a price (prices of 0 give statistics of 0).
C14_SnapshotStatistics ==
    [][\A j \in Jobs :
          /\ SnapshotReads(j) =>
                \A g \in snap'[j].results :
                    LET all == Members(listings, g.make, g.model)
                        priced == Priced(all)
                    IN  /\ g.count = Cardinality(all)
                        /\ priced = {} =>
                              /\ g.avg_price = NoneF
                              /\ g.min_price = NoneN /\ g.max_price = NoneN
                        /\ priced # {} =>
                              /\ \E r \in priced : r.price = g.min_price
                              /\ \E r \in priced : r.price = g.max_price
                              /\ \A r \in priced :
                                    g.min_price <= r.price /\ r.price <= g.max_price
                              /\ g.avg_price.num * Cardinality(priced)
                                    = SumPrice(priced) * g.avg_price.den
          /\ SnapshotReturns(j) =>
                \A g \in snap[j].results :
                \A x \in SnapshotsAt(snapshots', snap[j].date, g.make, g.model) :
                    /\ x.listing_count = g.count
                    /\ x.avg_price = g.avg_price
                    /\ x.min_price = g.min_price
                    /\ x.max_price = g.max_price]_vars

\* the (make, model) pairs of the listings that have both set
Pairs(table) ==
    {<<r.make, r.model>> : r \in {l \in table : l.make # NoneS /\ l.model # NoneS}}

\* C15: the groups a create_daily_snapshot call reads are the distinct (make,
\* model) pairs of the listings that have both set, one group per pair; the call
\* returns total_cars = the number of groups and snapshots_created +
\* snapshots_updated = total_cars, snapshots_created being the number of groups
\* that had no row for the date before the commit.
C15_GroupsAndCounts ==
    [][\A j \in Jobs :
          /\ SnapshotReads(j) =>
                /\ {<<g.make, g.model>> : g \in snap'[j].results} = Pairs(listings)
                /\ Cardinality(snap'[j].results) = Cardinality(Pairs(listings))
          /\ SnapshotReturns(j) =>
                /\ snap'[j].total = Cardinality(snap[j].results)
                /\ snap'[j].created + snap'[j].updated = snap'[j].total
                /\ snap'[j].created = Cardinality({g \in snap[j].results :
                       SnapshotsAt(snapshots, snap[j].date, g.make, g.model) = {}})]_vars

\* with a listing that has no model in the table, a call created the row of a
\* new pair and updated the row of the pair that had one
C15_Witness ==
    /\ snap["cron"].pc = "done" /\ snap["cron"].outcome = "returned"
    /\ snap["cron"].created = 1 /\ snap["cron"].updated = 1 /\ snap["cron"].total = 2
    /\ \E r \in listings : r.make # NoneS /\ r.model = NoneS
    /\ Cardinality(listings) = 3

\* the rows of the table dated otherwise than d
OtherDates(table, d) == {x \in table : x.date # d}

\* C16: no step of a create_daily_snapshot call for date d changes the listings
\* table or a daily_snapshots row dated otherwise than d, whether or not the
\* (make, model) of that row still has a listing.
C16_OtherDatesUntouched ==
    [][\A j \in Jobs : snap'[j] # snap[j] =>
          /\ listings' = listings
          /\ OtherDates(snapshots', snap'[j].date) = OtherDates(snapshots, snap'[j].date)]_vars

\* a call for the second day wrote a row while the table held a row of the first
\* day whose (make, model) has no listing any more
C16_Witness ==
    /\ snap["cron"].pc = "done" /\ snap["cron"].outcome = "returned"
    /\ snap["cron"].date = 1 /\ snap["cron"].created = 1
    /\ \E x \in snapshots :
          /\ x.date = 0
          /\ Members(listings, x.make, x.model) = {}
    /\ \E x \in snapshots : x.date = 1

\* the step ends j's create_daily_snapshot call with an exception
SnapshotRaises(j) ==
    snap[j].pc # "done" /\ snap'[j].pc = "done" /\ snap'[j].outcome # "returned"

\* the step ends the cleanup call with an exception
CleanupRaises ==
    sweep.pc # "done" /\ sweep'.pc = "done" /\ sweep'.outcome # "returned"

\* C17: a create_daily_snapshot or cleanup call that ends with an exception has
\* written nothing: the step that raises changes neither table and the call has
\* deleted no row before it; a call that commits writes all its rows at once (the
\* row of every group; the deletion of every row older than the cutoff).
C17_AllOrNothing ==
    [][/\ \A j \in Jobs : SnapshotRaises(j) =>
             listings' = listings /\ snapshots' = snapshots
       /\ \A j \in Jobs : SnapshotReturns(j) => Written(snap[j]) \subseteq snapshots'
       /\ CleanupRaises =>
             /\ listings' = listings /\ snapshots' = snapshots
             /\ sweep.deleted = 0
       /\ ListingsDeleted => OldListings(listings', sweep.cutoff) = {}
       /\ SnapshotsDeleted => OldSnapshots(snapshots', sweep.cutoff) = {}]_vars

\* the step in which get_price_trend answers
PriceTrendReplies == reply'.op = "price_trend" /\ reply' # reply

\* the rows of the answered query's car dated today - days or later
RowsSince(table, r) ==
    {x \in table : x.make = r.make /\ x.model = r.model /\ x.date >= r.today - r.days}

\* C18: get_price_trend(make, model, days) returns the DailySnapshot rows of that
\* make and model dated today - days or later, each once, in strictly ascending
\* order of date; when there is none it returns the empty list.
C18_PriceTrend ==
    [][PriceTrendReplies =>
          LET rows == reply'.rows
              expected == RowsSince(snapshots, reply')
          IN  /\ Len(rows) = Cardinality(expected)
              /\ {rows[i] : i \in 1..Len(rows)} = {TrendPoint(x) : x \in expected}
              /\ \A i, k \in 1..Len(rows) : i < k => rows[i].date < rows[k].date
              /\ expected = {} => rows = << >>]_vars

\* a price trend of two or more days that leaves an older snapshot of the car out
C18_Witness ==
    /\ reply.op = "price_trend"
    /\ Len(reply.rows) >= 2
    /\ reply.rows[1].date < reply.rows[2].date
    /\ \E x \in snapshots :
          /\ x.make = reply.make /\ x.model = reply.model
          /\ x.date < reply.today - reply.days

\* the step in which get_trending_cars answers
TrendingReplies == reply.pc = "compare" /\ reply'.pc = "done"

\* C19: before trending[:limit], a (make, model) pair is a candidate of
\* get_trending_cars(days, limit) exactly when one of today's snapshots with an
\* avg_price is of that pair and the pair has a snapshot dated exactly
\* today - days with an avg_price.
C19_TrendingCandidates ==
    [][TrendingReplies =>
          reply'.candidates =
              {<<t.make, t.model>> : t \in
                  {t \in reply.today_snapshots :
                      /\ t.avg_price # NoneF
                      /\ \E o \in snapshots :
                            /\ o.make = t.make /\ o.model = t.model
                            /\ o.date = reply.today - reply.days
                            /\ o.avg_price # NoneF}}]_vars

\* one pair is a candidate while another, with an avg_price today and on a
\* neighbouring date but no snapshot on the exact date, is not
C19_Witness ==
    /\ reply.op = "trending" /\ reply.pc = "done"
    /\ reply.candidates # {}
    /\ \E t, n \in snapshots :
          /\ <<t.make, t.model>> \notin reply.candidates
          /\ t.date = reply.today /\ t.avg_price # NoneF
          /\ n.make = t.make /\ n.model = t.model
          /\ n.date \notin {reply.today, reply.today - reply.days}
          /\ n.avg_price # NoneF
          /\ \A o \in snapshots :
                o.make = t.make /\ o.model = t.model => o.date # reply.today - reply.days

\* the snapshots an entry of the answer was computed from
SnapshotsOfEntry(e) ==
    {<<t, o>> \in reply.today_snapshots \X snapshots :
        /\ t.make = e.make /\ t.model = e.model
        /\ o.make = e.make /\ o.model = e.model
        /\ o.date = reply.today - reply.days}

\* C20 as stated: the change of every entry is today's avg_price minus the
\* avg_price of the snapshot dated today - days, and its direction is 'up'
\* exactly when that change is above 0.
C20_ChangeAndDirection ==
    [][TrendingReplies =>
          \A i \in 1..Len(reply'.rows) :
              LET e == reply'.rows[i]
              IN  \E pair \in SnapshotsOfEntry(e) :
                      /\ e.change = Minus(pair[1].avg_price, pair[2].avg_price)
                      /\ e.direction = "up" <=> e.change.num > 0
                      /\ e.direction \in {"up", "down"}]_vars

\* C20: the change of every entry is today's avg_price minus the avg_price of the
\* snapshot dated today - days, rounded to two decimals; its direction is 'up'
\* exactly when the difference before rounding is above 0 and 'down' otherwise.
C20_RoundedChangeAndDirection ==
    [][TrendingReplies =>
          \A i \in 1..Len(reply'.rows) :
              LET e == reply'.rows[i]
              IN  \E pair \in SnapshotsOfEntry(e) :
                      LET difference == Minus(pair[1].avg_price, pair[2].avg_price)
                      IN  /\ e.change = Round2(difference)
                          /\ e.direction = "up" <=> difference.num > 0
                          /\ e.direction \in {"up", "down"}]_vars

\* an entry whose price did not change is returned as 'down'
C20_Witness ==
    /\ reply.op = "trending" /\ reply.pc = "done"
    /\ \E i \in 1..Len(reply.rows) :
          /\ reply.rows[i].change.num = 0
          /\ reply.rows[i].direction = "down"
          /\ reply.rows[i].old_price = reply.rows[i].new_price

\* the entries of the candidate pairs of the call that answers in this step
CandidateEntries ==
    {TrendingEntry(t, o) : <<t, o>> \in
        {<<t, o>> \in reply.today_snapshots \X snapshots :
            /\ <<t.make, t.model>> \in reply'.candidates
            /\ o.make = t.make /\ o.model = t.model
            /\ o.date = reply.today - reply.days /\ o.avg_price # NoneF}}

\* C21: get_trending_cars(days, limit) returns at most limit entries (none when
\* limit is below 0), in order of
\* non-increasing |change|, and no candidate pair left out of the answer has a
\* larger |change| than an entry of the answer.
C21_TopLimit ==
    [][TrendingReplies =>
          LET rows == reply'.rows
              returned == {<<rows[i].make, rows[i].model>> : i \in 1..Len(rows)}
          IN  /\ Len(rows) <= (IF reply.limit >= 0 THEN reply.limit ELSE 0)
              /\ \A i, k \in 1..Len(rows) :
                    i < k => ~Less(Abs(rows[i].change), Abs(rows[k].change))
              /\ \A e \in CandidateEntries :
                    <<e.make, e.model>> \notin returned =>
                        \A i \in 1..Len(rows) :
                            ~Less(Abs(rows[i].change), Abs(e.change))]_vars

\* the step in which get_market_overview answers
OverviewReplies == reply'.op = "overview" /\ reply' # reply

\* the snapshots dated from r.today - r.days to r.today
InRange(table, r) == {x \in table : x.date >= r.today - r.days /\ x.date <= r.today}

\* the listing counts of a pair's rows of S added up, over the number of their dates
DailyListings(S, make, model) ==
    LET rows == {x \in S : x.make = make /\ x.model = model}
    IN  Fraction(SumListingCount(rows), Cardinality({x.date : x \in rows}))

\* the smaller of two numbers
Min(a, b) == IF a < b THEN a ELSE b

\* C22: get_market_overview(days) counts the snapshots dated from today - days to
\* today and their distinct (make, model) pairs, and most_listed holds
\* min(10, number of pairs) of the pairs, each once, in order of non-increasing
\* (listing counts added up) / (number of dates); with no snapshot in range the
\* answer has 0 pairs, no average price, 0 snapshots and an empty most_listed.
C22_MarketOverview ==
    [][OverviewReplies =>
          LET o == reply'.overview
              rows == InRange(snapshots, reply')
              pairs == {<<x.make, x.model>> : x \in rows}
              listed == [i \in 1..Len(o.most_listed) |->
                            <<o.most_listed[i].make, o.most_listed[i].model>>]
          IN  /\ o.total_snapshots = Cardinality(rows)
              /\ o.total_unique_cars = Cardinality(pairs)
              /\ Len(listed) = Min(MostListed, Cardinality(pairs))
              /\ \A i \in 1..Len(listed) : listed[i] \in pairs
              /\ \A i, k \in 1..Len(listed) : i < k =>
                    /\ listed[i] # listed[k]
                    /\ ~Less(DailyListings(rows, listed[i][1], listed[i][2]),
                             DailyListings(rows, listed[k][1], listed[k][2]))
              /\ rows = {} =>
                    /\ o.total_unique_cars = 0 /\ o.avg_market_price = NoneF
                    /\ o.total_snapshots = 0 /\ o.most_listed = << >>]_vars

\* the step starts a cleanup call: cutoff_date and the count of the rows to delete
CleanupCounts == sweep.pc \in {"idle", "done"} /\ sweep' # sweep

\* C23: cleanup_old_listings(r) removes every Listing with last_seen < now - r days
\* and keeps every other Listing; cleanup_old_snapshots(r) removes every
\* DailySnapshot with date < today - r days and keeps every other snapshot; a
\* call that finds no such row, and every other step of a call, removes nothing.
C23_ExactRowsDeleted ==
    [][/\ CleanupCounts =>
             /\ sweep'.cutoff = clock - sweep'.retention_days * TicksPerDay
             /\ DateOf(sweep'.cutoff) = DateOf(clock) - sweep'.retention_days
             /\ listings' = listings /\ snapshots' = snapshots
             /\ (sweep'.op = "listings" /\ sweep'.pc = "done") =>
                   \A r \in listings : r.last_seen >= sweep'.cutoff
             /\ (sweep'.op = "snapshots" /\ sweep'.pc = "done") =>
                   \A x \in snapshots : x.date >= DateOf(sweep'.cutoff)
       /\ ListingsDeleted =>
             /\ listings' = {r \in listings : r.last_seen >= sweep.cutoff}
             /\ snapshots' = snapshots
       /\ SnapshotsDeleted =>
             /\ snapshots' = {x \in snapshots : x.date >= DateOf(sweep.cutoff)}
             /\ listings' = listings
       /\ (sweep.pc = "remaining" /\ sweep' # sweep) =>
             listings' = listings /\ snapshots' = snapshots]_vars

\* cleanup_old_listings deleted one listing and kept one last seen at the cutoff
C23_Witness ==
    /\ sweep.op = "listings" /\ sweep.pc = "remaining" /\ sweep.deleted = 1
    /\ \E r \in listings : r.last_seen = sweep.cutoff

\* the step in which a cleanup call returns its result
CleanupReturns == sweep.pc # "done" /\ sweep'.pc = "done" /\ sweep'.outcome = "returned"

\* the table a cleanup call works on
StoreOf(op, l, x) == IF op = "listings" THEN l ELSE x

\* C24: every cleanup_old_listings or cleanup_old_snapshots call that returns,
\* also one that finds nothing to delete, returns a deleted count and a
\* remaining count: deleted is the number of rows the call removed, remaining
\* the number of rows of its table when it returns, and deleted plus the rows
\* left by the DELETE is the number of rows before it.
C24_DeletedAndRemaining ==
    [][/\ (ListingsDeleted \/ SnapshotsDeleted) =>
             LET before == StoreOf(sweep.op, listings, snapshots)
                 after == StoreOf(sweep.op, listings', snapshots')
             IN  /\ sweep'.deleted = Cardinality(before \ after)
                 /\ sweep'.deleted + Cardinality(after) = Cardinality(before)
       /\ CleanupReturns =>
             /\ sweep'.deleted # NoneN
             /\ sweep'.remaining # NoneN
             /\ sweep'.remaining =
                   Cardinality(StoreOf(sweep'.op, listings', snapshots'))
             /\ sweep'.pc = "done" /\ sweep.pc \in {"idle", "done"} =>
                   sweep'.deleted = 0]_vars

\* the scheduler starts a run of job j in this step
JobStarts(j) == scheduler.run[j] = "idle" /\ scheduler'.run[j] = "running"

\* C25: in every cycle the snapshot job starts when the runs of the three
\* collector jobs are over and never before a collector of the cycle, and the
\* cleanup job starts when the run of the snapshot job is over and never before
\* the snapshot job of the cycle.
C25_CycleOrder ==
    [][/\ JobStarts("daily_snapshot") =>
             /\ \A c \in Collectors : scheduler'.run[c] = "idle"
             /\ "cleanup_data" \notin scheduler.fired
       /\ JobStarts("cleanup_data") => scheduler'.run["daily_snapshot"] = "idle"
       /\ \A c \in Collectors : JobStarts(c) =>
             /\ "daily_snapshot" \notin scheduler'.fired
             /\ "cleanup_data" \notin scheduler'.fired]_vars

\* the step is the commit of the handler's update after p's insert lost the race
RecoveryCommits(p) ==
    /\ call[p].pc = "recover_commit" /\ call[p].error = "unique"
    /\ call'[p].pc = "done" /\ call'[p].outcome = "returned"

\* C26: the update that recovers a lost insert race leaves the row as the update
\* branch would: last_seen and scraped_at are the loser's now, and the loser's
\* title, price and engagement counters, where its record carries them, are stored.
C26_RecoveryWritesLikeUpdate ==
    [][\A p \in Callers : RecoveryCommits(p) =>
          \A r \in listings' : r.url = call[p].url =>
              LET d == call[p].data
              IN  /\ r.last_seen = call[p].now
                  /\ r.scraped_at = call[p].now
                  /\ "title" \in DOMAIN d => r.title = d["title"]
                  /\ "price" \in DOMAIN d => r.price = d["price"]
                  /\ "views" \in DOMAIN d => r.views = d["views"]
                  /\ "likes" \in DOMAIN d => r.likes = d["likes"]
                  /\ "comments" \in DOMAIN d => r.comments = d["comments"]]_vars

\* C29: no step of an upsert_listing call moves the last_seen of a url backwards.
C29_LastSeenNeverDecreases ==
    [][\A r \in listings : \A r2 \in listings' :
           r2.url = r.url => r2.last_seen >= r.last_seen]_vars

\* C30: a step never changes platform, make, model, year or mileage of a row it
\* keeps: from its insert until cleanup deletes it, a Listing stays in the
\* (make, model) group it was created in.
C30_CarColumnsImmutable ==
    [][\A r \in listings : \A r2 \in listings' :
           r2.id = r.id =>
               /\ r2.platform = r.platform
               /\ r2.make = r.make /\ r2.model = r.model
               /\ r2.year = r.year /\ r2.mileage = r.mileage]_vars

\* a record of another car updated a row, which kept its car
C30_Witness ==
    \E p \in Callers :
        /\ Returned(p) /\ call[p].path = "update"
        /\ \E r \in listings :
              /\ r.url = call[p].url
              /\ r.title = ChangedRecord.title /\ r.views = ChangedRecord.views
              /\ r.platform = FullRecord.platform
              /\ r.make = FullRecord.make /\ r.model = FullRecord.model
              /\ r.year = FullRecord.year /\ r.mileage = FullRecord.mileage

\* C27: a create_daily_snapshot call that reaches its commit over the listings it
\* read, the store not failing, returns without error whatever another call for
\* the date did meanwhile, and leaves for the date exactly the rows of its groups.
C27_ConcurrentSnapshots ==
    [][\A j \in Jobs :
          (SnapshotCommits(j) /\ snap[j].results = GroupStats(listings)) =>
              /\ snap'[j].outcome = "returned"
              /\ {x \in snapshots' : x.date = snap[j].date} = Written(snap[j])]_vars

\* the step is a call of initialize_scheduler, start_scheduler or stop_scheduler
ControlCall ==
    /\ scheduler' # scheduler
    /\ scheduler'.hour = scheduler.hour /\ scheduler'.run = scheduler.run

\* C28: get_scheduler_status().running is true exactly when the scheduler is
\* running; start_scheduler on a running scheduler returns 'already_running' and
\* starts nothing, stop_scheduler returns 'stopped' on a running scheduler and
\* 'not_running' on one that is not initialized or not running, and
\* initialize_scheduler on an initialized scheduler adds no job and starts nothing.
C28_SchedulerControl ==
    [][/\ StatusRunning(scheduler') <=> scheduler'.state = "running"
       /\ scheduler'.registrations <= 1
       /\ scheduler'.initialized <=> scheduler'.registrations = 1
       /\ (ControlCall /\ scheduler'.op = "start") =>
             /\ scheduler'.state = "running"
             /\ scheduler.state = "running" =>
                   /\ scheduler'.status = "already_running"
                   /\ scheduler'.registrations = scheduler.registrations
       /\ (ControlCall /\ scheduler'.op = "stop") =>
             /\ scheduler'.state # "running"
             /\ scheduler'.status =
                   IF scheduler.state = "running" THEN "stopped" ELSE "not_running"
             /\ scheduler.state # "running" => scheduler'.state = scheduler.state
       /\ (ControlCall /\ scheduler'.op = "initialize" /\ scheduler.initialized) =>
             /\ scheduler'.registrations = scheduler.registrations
             /\ scheduler'.state = scheduler.state
             /\ scheduler'.status = "existing"]_vars

\* a scheduler that was stopped and started again, its jobs added once
C28_Witness ==
    /\ scheduler.op = "start" /\ scheduler.status = "started"
    /\ scheduler.state = "running" /\ StatusRunning(scheduler)
    /\ scheduler.registrations = 1
    /\ scheduler.fired # {}

====
